---- MODULE Spec2Model ----
(***************************************************************************)
(* A state-machine model of the iterative minimisation framework of        *)
(* real-function-optimization: GradientDescent, HeavyBall, Nesterov and    *)
(* Adam (include/core, include/methods, src/src).  One run of operator()() *)
(* is a walk  head -> [armijo ->] update -> head -> ... -> done.           *)
(*                                                                         *)
(* Numbers.  scalar_type is double; the model computes with rationals      *)
(* <<n, d>> (d > 0, lowest terms).  A result whose numerator or            *)
(* denominator needs more than MantissaBits bits is rounded to its last    *)
(* continued-fraction convergent that fits, as a double rounds a result it *)
(* cannot represent; every result that fits is exact.  std::sqrt is exact  *)
(* on squares of rationals                                                 *)
(* and is otherwise rounded down to a multiple of 1/SqrtScale.  std::exp   *)
(* is its (1,1) Pade approximant.                                          *)
(***************************************************************************)
EXTENDS Integers, Sequences, FiniteSets, TLC

\* ------------------------------------------------------------------------
\* Bounds of the model (not program constants)
\* ------------------------------------------------------------------------
MaxIterations == 3
MantissaBits == 14
SqrtScale == 64
MaxRuns == 2

\* ------------------------------------------------------------------------
\* scalar_type arithmetic
\* ------------------------------------------------------------------------
IAbs(i) == IF i < 0 THEN -i ELSE i

RECURSIVE GCD(_, _)
GCD(a, b) == IF b = 0 THEN a ELSE GCD(b, a % b)

RECURSIVE Pow2(_)
Pow2(k) == IF k = 0 THEN 1 ELSE 2 * Pow2(k - 1)

Limit == Pow2(MantissaBits)

\* The best rational approximation of n/d (n >= 0, d > 0) whose numerator and
\* denominator fit the mantissa: the last continued-fraction convergent that
\* fits.  A value that fits is returned exactly, in lowest terms.
RECURSIVE RRound(_, _, _, _, _, _)
RRound(n, d, p0, q0, p1, q1) ==
    LET a == n \div d
    IN  IF a >= Limit THEN (IF q1 = 0 THEN <<Limit - 1, 1>> ELSE <<p1, q1>>)
        ELSE LET p2 == a * p1 + p0
                 q2 == a * q1 + q0
             IN  IF p2 >= Limit \/ q2 >= Limit THEN <<p1, q1>>
                 ELSE IF n % d = 0 THEN <<p2, q2>>
                 ELSE RRound(d, n % d, p1, q1, p2, q2)

\* The scalar n/d (d # 0).
R(n, d) ==
    LET r == RRound(IAbs(n), IAbs(d), 0, 1, 1, 0)
    IN  IF (n < 0) # (d < 0) THEN <<-r[1], r[2]>> ELSE r

Zero == <<0, 1>>
One == <<1, 1>>
Half == <<1, 2>>

RAdd(a, b) == R(a[1] * b[2] + b[1] * a[2], a[2] * b[2])
RNeg(a) == <<-a[1], a[2]>>
RSub(a, b) == RAdd(a, RNeg(b))
RMul(a, b) == R(a[1] * b[1], a[2] * b[2])
RDiv(a, b) == R(a[1] * b[2], a[2] * b[1])
RAbs(a) == <<IAbs(a[1]), a[2]>>
RLt(a, b) == a[1] * b[2] < b[1] * a[2]
RLe(a, b) == a[1] * b[2] <= b[1] * a[2]
RInt(i) == <<i, 1>>

RECURSIVE RPow(_, _)
RPow(a, k) == IF k = 0 THEN One ELSE RMul(a, RPow(a, k - 1))

\* Floor of the square root of a natural number (bisection).
RECURSIVE ISqrtIn(_, _, _)
ISqrtIn(n, lo, hi) ==
    IF lo >= hi THEN lo
    ELSE LET mid == (lo + hi + 1) \div 2
         IN  IF mid * mid <= n THEN ISqrtIn(n, mid, hi) ELSE ISqrtIn(n, lo, mid - 1)

ISqrt(n) == ISqrtIn(n, 0, IF n < 46340 THEN n ELSE 46340)

\* std::sqrt: exact on squares, otherwise rounded down to 1/SqrtScale.
RSqrt(a) ==
    LET sn == ISqrt(a[1])
        sd == ISqrt(a[2])
    IN  IF sn * sn = a[1] /\ sd * sd = a[2] THEN <<sn, sd>>
        ELSE R(ISqrt((a[1] * SqrtScale * SqrtScale) \div a[2]), SqrtScale)

\* std::exp(-mu): the (1,1) Pade approximant (2 - mu)/(2 + mu), 0 <= mu < 2.
ExpNeg(mu) == RDiv(RSub(RInt(2), mu), RAdd(RInt(2), mu))

\* ------------------------------------------------------------------------
\* vector_type arithmetic (a vector is a sequence of scalars)
\* ------------------------------------------------------------------------
VAdd(a, b) == [i \in DOMAIN a |-> RAdd(a[i], b[i])]
VSub(a, b) == [i \in DOMAIN a |-> RSub(a[i], b[i])]
VScale(s, a) == [i \in DOMAIN a |-> RMul(s, a[i])]
VZero(n) == [i \in 1..n |-> Zero]

RECURSIVE RSum(_)
RSum(a) == IF a = <<>> THEN Zero ELSE RAdd(Head(a), RSum(Tail(a)))

squaredNorm(a) == RSum([i \in DOMAIN a |-> RMul(a[i], a[i])])

RECURSIVE LCMDen(_)
LCMDen(a) ==
    IF a = <<>> THEN 1
    ELSE LET l == LCMDen(Tail(a))
             dd == Head(a)[2]
         IN  (l \div GCD(l, dd)) * dd

\* The numerators of a over the common denominator D.
Numerators(a, D) == [i \in DOMAIN a |-> a[i][1] * (D \div a[i][2])]

RECURSIVE ISumSq(_)
ISumSq(c) == IF c = <<>> THEN 0 ELSE Head(c) * Head(c) + ISumSq(Tail(c))

\* Integers whose squares can be summed in machine integers.
Squarable(c) == \A i \in DOMAIN c : IAbs(c[i]) < Pow2(15)

\* norm: sqrt of the sum of squares.  Over a common denominator D the sum of
\* squares is an integer S / D^2, so the root is exact whenever S is a square.
norm(a) ==
    IF Len(a) = 1 THEN RAbs(a[1])
    ELSE LET D == LCMDen(a)
         IN  IF D < Limit /\ Squarable(Numerators(a, D))
             THEN LET S == ISumSq(Numerators(a, D))
                      r == ISqrt(S)
                  IN  IF r * r = S \/ S >= Limit THEN R(r, D)
                      ELSE RDiv(RSqrt(<<S, 1>>), <<D, 1>>)
             ELSE RSqrt(squaredNorm(a))

\* Eigen's normalize(): v / ||v||, and v itself when ||v|| = 0.
normalize(a) == IF norm(a) = Zero THEN a ELSE VScale(RDiv(One, norm(a)), a)

\* ------------------------------------------------------------------------
\* The caller's callables f and grad_f (opaque to the optimizers).  A
\* callable is named by the expression it was built from:
\*   "sq"  : f(x) = sum x[i]^2        grad_f(x) = 2 x
\*   "sq2" : f(x) = 2 sum x[i]^2      grad_f(x) = 4 x
\*   "lin" : f(x) = x[0]              grad_f(x) = (1, 0, ..., 0)
\* and, passed to gradient() and hessian() only (n the last index),
\*   "quad"  : f(x) = sum x[i]^2 + x[0]*x[n]
\*   "cubic" : f(x) = x[0]^2 * x[n]
\*   "cube"  : f(x) = x[0]^3
\* and a callable that raises outside its domain x[0] >= 0,
\*   "dom" : f(x) = sum x[i]^2        grad_f(x) = 2 x     for x[0] >= 0
\* ------------------------------------------------------------------------
Expressions == {"sq", "sq2", "lin"}

f(e, p) ==
    CASE e = "sq" -> squaredNorm(p)
      [] e = "sq2" -> RMul(RInt(2), squaredNorm(p))
      [] e = "lin" -> p[1]
      [] e = "quad" -> RAdd(squaredNorm(p), RMul(p[1], p[Len(p)]))
      [] e = "cubic" -> RMul(RMul(p[1], p[1]), p[Len(p)])
      [] e = "cube" -> RMul(RMul(p[1], p[1]), p[1])
      [] e = "dom" -> squaredNorm(p)

grad_f(e, p) ==
    CASE e = "sq" -> VScale(RInt(2), p)
      [] e = "sq2" -> VScale(RInt(4), p)
      [] e = "lin" -> [i \in DOMAIN p |-> IF i = 1 THEN One ELSE Zero]
      [] e = "dom" -> VScale(RInt(2), p)

\* The call of the callable at p exits with an exception.
Raises(e, p) == e = "dom" /\ RLt(p[1], Zero)

\* ------------------------------------------------------------------------
\* Finite differences (fd_gradient.hpp, fd_hessian.hpp)
\* ------------------------------------------------------------------------
\* namespace DifferenceType
DifferenceType == {"Forward", "Backward", "Centered"}

\* Mutant: the same stencil is used at both derivative levels.
otherType_Same(DT) == DT

\* DT::otherType
otherType(DT) ==
    CASE DT = "Forward" -> "Backward"
      [] DT = "Backward" -> "Forward"
      [] DT = "Centered" -> "Centered"

\* A callable passed to gradient(): the caller's f, or the closure grad_i of
\* hessian(), the i-th component of gradient<DT>(f, h).
Function(e) == [kind |-> "f", e |-> e]

grad_i(e, h, DT, i) == [kind |-> "grad_i", e |-> e, h |-> h, DT |-> DT, i |-> i]

\* x_forward(i) += h, x_backward(i) -= h on copies of x
Perturbed(p, i, delta) == [p EXCEPT ![i] = RAdd(p[i], delta)]

\* Mutant: the one-sided stencils are exchanged.
Difference_Exchanged(DT, forward, here, backward, h) ==
    CASE DT = "Forward" -> RDiv(RSub(here, backward), h)
      [] DT = "Backward" -> RDiv(RSub(forward, here), h)
      [] DT = "Centered" -> RDiv(RSub(forward, backward), RMul(RInt(2), h))

\* The return statements of compute_single_gradient.
Difference(DT, forward, here, backward, h) ==
    CASE DT = "Forward" -> RDiv(RSub(forward, here), h)
      [] DT = "Backward" -> RDiv(RSub(here, backward), h)
      [] DT = "Centered" -> RDiv(RSub(forward, backward), RMul(RInt(2), h))

RECURSIVE gradient(_, _, _, _)

\* F(p) for a callable without state of its own.
Apply(F, p) ==
    IF F.kind = "f" THEN f(F.e, p)
    ELSE gradient(Function(F.e), F.h, F.DT, p)[F.i]

\* Mutant: every coordinate is perturbed, not coordinate i alone.
compute_single_gradient_AllAxes(F, DT, h, p, i) ==
    LET x_forward == [k \in DOMAIN p |-> RAdd(p[k], h)]
        x_backward == [k \in DOMAIN p |-> RSub(p[k], h)]
    IN  Difference(DT, Apply(F, x_forward), Apply(F, p), Apply(F, x_backward), h)

compute_single_gradient(F, DT, h, p, i) ==
    LET x_forward == Perturbed(p, i, h)
        x_backward == Perturbed(p, i, RNeg(h))
    IN  Difference(DT, Apply(F, x_forward), Apply(F, p), Apply(F, x_backward), h)

\* gradient<F, T, DT>(f, h)(p): the coordinates, whatever order they are
\* computed in (F has no state).
gradient(F, h, DT, p) ==
    [i \in DOMAIN p |-> compute_single_gradient(F, DT, h, p, i)]

\* Mutant: grad_i always takes the forward difference.
hessian_row_InnerForward(e, h, DT, p, i) ==
    gradient(grad_i(e, h, "Forward", i), h, otherType(DT), p)

RECURSIVE CallRaises(_, _)

\* One of the calls of F made by compute_single_gradient(i) exits with an
\* exception.
DifferenceRaises(F, DT, h, p, i) ==
    LET x_forward == Perturbed(p, i, h)
        x_backward == Perturbed(p, i, RNeg(h))
    IN  CASE DT = "Forward" -> CallRaises(F, x_forward) \/ CallRaises(F, p)
          [] DT = "Backward" -> CallRaises(F, p) \/ CallRaises(F, x_backward)
          [] DT = "Centered" -> CallRaises(F, x_forward) \/ CallRaises(F, x_backward)

\* F(q) exits with an exception: f itself, or grad_i, which evaluates the
\* whole gradient of f at q.
CallRaises(F, q) ==
    IF F.kind = "f" THEN Raises(F.e, q)
    ELSE \E k \in DOMAIN q : DifferenceRaises(Function(F.e), F.DT, F.h, q, k)

\* Row i of hessian<F, T, DT>(f, h)(p): grad_grad_i(p).
hessian_row(e, h, DT, p, i) == gradient(grad_i(e, h, DT, i), h, otherType(DT), p)

\* ------------------------------------------------------------------------
\* The bivariate derivative of order N (bivar_gradient.hpp): component c is
\* the N-th difference of f along axis c, the stencil alternating with the
\* order.
\* ------------------------------------------------------------------------
RECURSIVE derive_2D(_, _, _, _, _)

\* Mutant: the lower order keeps the stencil DT.
derive_2D_SameType(N, e, DT, h, p) ==
    IF N = 0 THEN <<f(e, p), f(e, p)>>
    ELSE LET prevFuncs(q) == derive_2D(N - 1, e, DT, h, q)
             h1 == <<h, Zero>>
             h2 == <<Zero, h>>
         IN  CASE DT = "Forward" ->
                    <<RDiv(RSub(prevFuncs(VAdd(p, h1))[1], prevFuncs(p)[1]), h),
                      RDiv(RSub(prevFuncs(VAdd(p, h2))[2], prevFuncs(p)[2]), h)>>
               [] DT = "Backward" ->
                    <<RDiv(RSub(prevFuncs(p)[1], prevFuncs(VSub(p, h1))[1]), h),
                      RDiv(RSub(prevFuncs(p)[2], prevFuncs(VSub(p, h2))[2]), h)>>
               [] DT = "Centered" ->
                    <<RDiv(RSub(prevFuncs(VAdd(p, h1))[1], prevFuncs(VSub(p, h1))[1]),
                           RMul(RInt(2), h)),
                      RDiv(RSub(prevFuncs(VAdd(p, h2))[2], prevFuncs(VSub(p, h2))[2]),
                           RMul(RInt(2), h))>>

\* derive_2D<N, F, T, DT>(f, h)(p)
derive_2D(N, e, DT, h, p) ==
    IF N = 0 THEN <<f(e, p), f(e, p)>>
    ELSE LET prevFuncs(q) == derive_2D(N - 1, e, otherType(DT), h, q)
             h1 == <<h, Zero>>
             h2 == <<Zero, h>>
         IN  CASE DT = "Forward" ->
                    <<RDiv(RSub(prevFuncs(VAdd(p, h1))[1], prevFuncs(p)[1]), h),
                      RDiv(RSub(prevFuncs(VAdd(p, h2))[2], prevFuncs(p)[2]), h)>>
               [] DT = "Backward" ->
                    <<RDiv(RSub(prevFuncs(p)[1], prevFuncs(VSub(p, h1))[1]), h),
                      RDiv(RSub(prevFuncs(p)[2], prevFuncs(VSub(p, h2))[2]), h)>>
               [] DT = "Centered" ->
                    <<RDiv(RSub(prevFuncs(VAdd(p, h1))[1], prevFuncs(VSub(p, h1))[1]),
                           RMul(RInt(2), h)),
                      RDiv(RSub(prevFuncs(VAdd(p, h2))[2], prevFuncs(VSub(p, h2))[2]),
                           RMul(RInt(2), h))>>

\* ------------------------------------------------------------------------
\* Optimizer variants (template arguments) and the Parameters records
\* ------------------------------------------------------------------------
Variants ==
    [method : {"GradientDescent"}, T : {"exponential", "inverse", "armijo"}, S : {"none"}]
    \cup [method : {"HeavyBall", "Nesterov"}, T : {"exponential", "inverse", "constant"},
          S : {"dynamic", "constant"}]
    \cup [method : {"Adam"}, T : {"dynamic", "constant"}, S : {"none"}]

InitialConditions == {<<Zero>>, <<One>>, <<Zero, One>>}
ToleranceR == {Half}
ToleranceS == {<<1, 4>>, One}
InitialSteps == {Half, One, RInt(2)}
MinimumSteps == {<<1, 4>>, One}
Mus == {<<2, 3>>, <<6, 5>>}
Sigmas == {Half, <<9, 10>>}
Etas == {Half, One}
Beta1s == {Half}
Beta2s == {<<3, 4>>, <<15, 16>>}

\* The fields a variant reads; a field it never reads keeps one value.
ParamsOf(var) ==
    {p \in
    [f : Expressions,
     grad_f : Expressions,
     initial_condition : InitialConditions,
     tolerance_r : ToleranceR,
     tolerance_s : ToleranceS,
     initial_step : InitialSteps,
     max_iterations : 1..MaxIterations,
     minimum_step : MinimumSteps,
     sigma : IF var.T = "armijo" THEN Sigmas ELSE {<<1, 10>>},
     mu : IF var.T \in {"exponential", "inverse"} THEN Mus ELSE {<<2, 3>>},
     eta : IF var.method \in {"HeavyBall", "Nesterov"} THEN Etas ELSE {Half},
     beta1 : Beta1s,
     beta2 : IF var.method = "Adam" THEN Beta2s ELSE {<<3, 4>>}] : p.grad_f = p.f}

\* 1e-8, the entries of Adam's epsilon vector, as 1/EpsilonInverse.
EpsilonInverse == 100000000

VARIABLES
    variant,      \* the template arguments <T, S> and the class
    params,       \* the Parameters record of the object
    pc,           \* "idle", "head", "armijo", "update", "exit", "done", "raised"
    x,            \* the current point
    alpha,        \* the step size
    iteration,    \* the loop counter
    grad,         \* gradient at x (normalised after the residual test where the code does)
    grad_y,       \* Nesterov: gradient at y (normalised after the residual test)
    residual,     \* norm of the gradient at x
    x_prev,       \* the point before the update
    d,            \* HeavyBall: the momentum vector
    y,            \* Nesterov: the lookahead point
    m, v,         \* Adam: moment estimates
    beta1_iter, beta2_iter, \* Adam: running powers of beta1, beta2
    step_size,    \* the step-length measure of the last update
    out,          \* the lines written to std::cout, in order
    result,       \* the returned point (<<>> before the return)
    broke,        \* which break left the loop: "none", "residual", "step"
    halvings,     \* halvings by the Armijo loop in this outer iteration
    updates,      \* point updates performed in this run
    family,       \* "core": standalone class; "methods": class derived from Method
    base,         \* Method::params: the f, grad_f, initial_condition it holds
    call,         \* the arguments of the call that started this run, if it had any
    runs,         \* calls of operator() on the object so far
    history,      \* the iterates, steps and step measures of this run, in order
    previous,     \* history, output and result of the run before this one
    fd,           \* one call of the callable returned by gradient() or hessian()
    program       \* one execution of main, or one call of read(datafile, params)

vars == <<variant, params, pc, x, alpha, iteration, grad, grad_y, residual, x_prev,
          d, y, m, v, beta1_iter, beta2_iter, step_size, out, result, broke,
          halvings, updates, family, base, call, runs, history, previous, fd,
          program>>

\* The variables of an optimizer object and its runs.
optimizer == <<variant, params, pc, x, alpha, iteration, grad, grad_y, residual, x_prev,
               d, y, m, v, beta1_iter, beta2_iter, step_size, out, result, broke,
               halvings, updates, family, base, call, runs, history, previous>>

\* No finite-difference callable is being evaluated.
NoEvaluation == [mode |-> "none"]

\* Neither main nor a configuration reader is executing.
NoProgram == [pc |-> "none"]

\* Before the first call the locals of operator()() do not exist.
NoCall == [f |-> "none", grad_f |-> "none", initial_condition |-> <<>>]

NoRun == [history |-> <<>>, out |-> <<>>, result |-> <<>>]

BaseOf(p) == [f |-> p.f, grad_f |-> p.grad_f, initial_condition |-> p.initial_condition]

Constructed ==
    /\ base = BaseOf(params)
    /\ pc = "idle"
    /\ x = <<>> /\ alpha = Zero /\ iteration = 0
    /\ grad = <<>> /\ grad_y = <<>> /\ residual = Zero /\ x_prev = <<>>
    /\ d = <<>> /\ y = <<>> /\ m = <<>> /\ v = <<>>
    /\ beta1_iter = Zero /\ beta2_iter = Zero
    /\ step_size = Zero /\ out = <<>> /\ result = <<>>
    /\ broke = "none" /\ halvings = 0 /\ updates = 0
    /\ call = NoCall /\ runs = 0 /\ history = <<>> /\ previous = NoRun
    /\ fd = NoEvaluation
    /\ program = NoProgram

\* The state after construction: the object holds its Parameters.
Init ==
    /\ variant \in Variants
    /\ family = "core"
    /\ params \in ParamsOf(variant)
    /\ Constructed

Dim == Len(params.initial_condition)

\* Mutant: alpha is kept in the object and survives into the next run.
Start_AlphaKept(p) ==
    /\ pc' = "head"
    /\ x' = p.initial_condition
    /\ alpha' = IF runs = 0 THEN p.initial_step ELSE alpha
    /\ iteration' = 0
    /\ d' = IF variant.method = "HeavyBall" THEN VZero(Len(p.initial_condition)) ELSE <<>>
    /\ y' = IF variant.method = "Nesterov" THEN p.initial_condition ELSE <<>>
    /\ m' = IF variant.method = "Adam" THEN VZero(Len(p.initial_condition)) ELSE <<>>
    /\ v' = IF variant.method = "Adam" THEN VZero(Len(p.initial_condition)) ELSE <<>>
    /\ beta1_iter' = IF variant.method = "Adam" THEN p.beta1 ELSE Zero
    /\ beta2_iter' = IF variant.method = "Adam" THEN p.beta2 ELSE Zero
    /\ out' = <<>> /\ result' = <<>> /\ broke' = "none"
    /\ halvings' = 0 /\ updates' = 0 /\ history' = <<>>
    /\ grad' = <<>> /\ grad_y' = <<>> /\ residual' = Zero /\ x_prev' = <<>>
    /\ step_size' = Zero
    /\ runs' = runs + 1

\* operator()() up to the loop: the locals are created and initialised from
\* the Parameters record p the class reads.
Start(p) ==
    /\ pc' = "head"
    /\ x' = p.initial_condition
    /\ alpha' = p.initial_step
    /\ iteration' = 0
    /\ d' = IF variant.method = "HeavyBall" THEN VZero(Len(p.initial_condition)) ELSE <<>>
    /\ y' = IF variant.method = "Nesterov" THEN p.initial_condition ELSE <<>>
    /\ m' = IF variant.method = "Adam" THEN VZero(Len(p.initial_condition)) ELSE <<>>
    /\ v' = IF variant.method = "Adam" THEN VZero(Len(p.initial_condition)) ELSE <<>>
    /\ beta1_iter' = IF variant.method = "Adam" THEN p.beta1 ELSE Zero
    /\ beta2_iter' = IF variant.method = "Adam" THEN p.beta2 ELSE Zero
    /\ out' = <<>> /\ result' = <<>> /\ broke' = "none"
    /\ halvings' = 0 /\ updates' = 0 /\ history' = <<>>
    /\ grad' = <<>> /\ grad_y' = <<>> /\ residual' = Zero /\ x_prev' = <<>>
    /\ step_size' = Zero
    /\ runs' = runs + 1

\* The first call of operator()() on the object.
Run ==
    /\ pc = "idle"
    /\ fd = NoEvaluation
    /\ Start(params)
    /\ call' = NoCall
    /\ UNCHANGED <<program, fd, variant, params, family, base, previous>>

\* operator()() called again on the same object.
Rerun ==
    /\ pc = "done"
    /\ runs < MaxRuns
    /\ Start(params)
    /\ call' = NoCall
    /\ previous' = [history |-> history, out |-> out, result |-> result]
    /\ UNCHANGED <<program, fd, variant, params, family, base>>

\* The arguments of operator()(f, grad_f, initial_condition).
CallArguments ==
    {[f |-> e, grad_f |-> e, initial_condition |-> ic] :
        e \in {"sq2", "lin"}, ic \in {<<One>>, <<Zero, One>>}}

\* operator()(f, grad_f, initial_condition): the three fields of params are
\* assigned, then operator()() runs.  In a class derived from Method the
\* assignment is to Method::params and the run reads the class's own params.
Call ==
    /\ pc \in {"idle", "done"}
    /\ runs < MaxRuns
    /\ \E a \in CallArguments :
         LET assigned == [params EXCEPT !.f = a.f, !.grad_f = a.grad_f,
                                        !.initial_condition = a.initial_condition]
             read == IF family = "core" THEN assigned ELSE params
         IN  /\ base' = a
             /\ params' = read
             /\ Start(read)
             /\ call' = a
    /\ previous' = [history |-> history, out |-> out, result |-> result]
    /\ UNCHANGED <<program, fd, variant, family>>

\* for (...; iteration < params.max_iterations; ...)
LoopContinues(it, max) == it < max

\* Mutant: the residual is compared with the step tolerance.
ResidualTest_StepTolerance(res, tol) == RLt(res, params.tolerance_s)

\* Mutant: only a zero residual stops the run before the division.
ResidualTest_Zero(res, tol) == res = Zero

\* if (residual < params.tolerance_r)
ResidualTest(res, tol) == RLt(res, tol)

\* Mutant: <= in place of <.
StepTest_OrEqual(step, tol) == RLe(step, tol)

\* if (step_size < params.tolerance_s)
StepTest(step, tol) == RLt(step, tol)

\* Mutant: Nesterov tests the gradient at the lookahead point.
TestedGradient_AtLookahead ==
    IF variant.method = "Nesterov" THEN grad_f(params.grad_f, y) ELSE grad_f(params.grad_f, x)

\* The gradient the residual test reads: grad = params.grad_f(x).
TestedGradient == grad_f(params.grad_f, x)

\* Mutant: the step found in the previous outer iteration is kept.
ArmijoStart_Carried(a) == a

\* Armijo: alpha = params.initial_step, in every outer iteration.
ArmijoStart(a) == params.initial_step

\* Mutant: GradientDescent normalises under Armijo as well.
GradAfterTest_Always(g, res) ==
    IF variant.method \in {"HeavyBall", "GradientDescent"}
    THEN VScale(RDiv(One, res), g)
    ELSE g

\* grad after the residual test: divided by its norm except in Adam, in
\* Nesterov (which normalises grad_y) and under Armijo.
GradAfterTest(g, res) ==
    IF \/ variant.method = "HeavyBall"
       \/ variant.method = "GradientDescent" /\ variant.T \in {"exponential", "inverse"}
    THEN VScale(RDiv(One, res), g)
    ELSE g

\* params.grad_f(x), and in Nesterov params.grad_f(y), exits with an
\* exception.
GradientRaises ==
    \/ Raises(params.grad_f, x)
    \/ variant.method = "Nesterov" /\ Raises(params.grad_f, y)

\* No optimizer has a try block: the exception leaves operator()() before
\* anything is written or returned.
HeadRaise ==
    /\ pc = "head"
    /\ LoopContinues(iteration, params.max_iterations)
    /\ GradientRaises
    /\ pc' = "raised"
    /\ UNCHANGED <<program, fd, variant, params, family, base, call, runs, history, previous,
                   x, alpha, iteration, grad, grad_y, residual, x_prev,
                   d, y, m, v, beta1_iter, beta2_iter, step_size, out, result, broke,
                   halvings, updates>>

\* Loop head: gradient, residual test, normalisation.
HeadStep ==
    /\ pc = "head"
    /\ LoopContinues(iteration, params.max_iterations)
    /\ ~GradientRaises
    /\ LET g == TestedGradient
           res == norm(g)
       IN  /\ residual' = res
           /\ IF ResidualTest(res, params.tolerance_r)
              THEN /\ out' = Append(out, [msg |-> "ConvergedResidual", iterations |-> iteration])
                   /\ broke' = "residual"
                   /\ pc' = "exit"
                   /\ grad' = g
                   /\ grad_y' = IF variant.method = "Nesterov"
                                THEN grad_f(params.grad_f, y) ELSE grad_y
                   /\ UNCHANGED <<alpha, halvings>>
              ELSE /\ grad' = GradAfterTest(g, res)
                   /\ grad_y' = IF variant.method = "Nesterov"
                                THEN normalize(grad_f(params.grad_f, y)) ELSE grad_y
                   /\ alpha' = IF variant.T = "armijo" THEN ArmijoStart(alpha) ELSE alpha
                   /\ halvings' = 0
                   /\ pc' = IF variant.T = "armijo" THEN "armijo" ELSE "update"
                   /\ UNCHANGED <<out, broke>>
    /\ UNCHANGED <<program, fd, variant, params, family, base, call, runs, history, previous,
                   x, iteration, x_prev, d, y, m, v, beta1_iter,
                   beta2_iter, step_size, result, updates>>

\* The loop condition fails: control leaves the loop without a break.
LoopEnd ==
    /\ pc = "head"
    /\ ~LoopContinues(iteration, params.max_iterations)
    /\ pc' = "exit"
    /\ UNCHANGED <<program, fd, variant, params, family, base, call, runs, history, previous,
                   x, alpha, iteration, grad, grad_y, residual, x_prev,
                   d, y, m, v, beta1_iter, beta2_iter, step_size, out, result, broke,
                   halvings, updates>>

\* Mutant: the bound uses grad.norm() in place of grad.squaredNorm().
ArmijoCondition_Norm(a) ==
    /\ RLt(params.minimum_step, a)
    /\ RLt(RSub(f(params.f, x), f(params.f, VSub(x, VScale(a, grad)))),
           RMul(RMul(params.sigma, a), norm(grad)))

\* Mutant: the floor alpha > minimum_step is not tested.
ArmijoCondition_NoFloor(a) ==
    RLt(RSub(f(params.f, x), f(params.f, VSub(x, VScale(a, grad)))),
        RMul(RMul(params.sigma, a), squaredNorm(grad)))

\* while (alpha > minimum_step && f(x) - f(x - alpha*grad) < sigma*alpha*grad.squaredNorm())
ArmijoCondition(a) ==
    /\ RLt(params.minimum_step, a)
    /\ RLt(RSub(f(params.f, x), f(params.f, VSub(x, VScale(a, grad)))),
           RMul(RMul(params.sigma, a), squaredNorm(grad)))

\* The loop condition calls params.f (after alpha > minimum_step held) and
\* the call exits with an exception.
ArmijoRaises(a) ==
    /\ RLt(params.minimum_step, a)
    /\ \/ Raises(params.f, x)
       \/ Raises(params.f, VSub(x, VScale(a, grad)))

ArmijoRaise ==
    /\ pc = "armijo"
    /\ ArmijoRaises(alpha)
    /\ pc' = "raised"
    /\ UNCHANGED <<program, fd, variant, params, family, base, call, runs, history, previous,
                   x, alpha, iteration, grad, grad_y, residual, x_prev,
                   d, y, m, v, beta1_iter, beta2_iter, step_size, out, result, broke,
                   halvings, updates>>

\* alpha *= 0.5
ArmijoHalve ==
    /\ pc = "armijo"
    /\ ~ArmijoRaises(alpha)
    /\ ArmijoCondition(alpha)
    /\ alpha' = RMul(alpha, Half)
    /\ halvings' = halvings + 1
    /\ UNCHANGED <<program, fd, variant, params, family, base, call, runs, history, previous,
                   pc, x, iteration, grad, grad_y, residual, x_prev,
                   d, y, m, v, beta1_iter, beta2_iter, step_size, out, result, broke,
                   updates>>

\* The backtracking loop exits with the accepted alpha.
ArmijoAccept ==
    /\ pc = "armijo"
    /\ ~ArmijoRaises(alpha)
    /\ ~ArmijoCondition(alpha)
    /\ pc' = "update"
    /\ UNCHANGED <<program, fd, variant, params, family, base, call, runs, history, previous,
                   x, alpha, iteration, grad, grad_y, residual, x_prev,
                   d, y, m, v, beta1_iter, beta2_iter, step_size, out, result, broke,
                   halvings, updates>>

\* ------------------------------------------------------------------------
\* Step-size policies
\* ------------------------------------------------------------------------
\* Mutant: the decay does not compound.
ExponentialDecay_Once(a) == RMul(params.initial_step, ExpNeg(params.mu))

\* alpha *= std::exp(-params.mu)
ExponentialDecay(a) == RMul(a, ExpNeg(params.mu))

\* Mutant: the decay starts from the previous alpha.
InverseDecay_FromPrevious(k, res) ==
    RDiv(alpha, RAdd(One, RMul(RMul(params.mu, RInt(k)), RDiv(One, res))))

\* alpha = initial_step / (1 + mu * iteration * (1 / residual))
InverseDecay(k, res) ==
    RDiv(params.initial_step,
         RAdd(One, RMul(RMul(params.mu, RInt(k)), RDiv(One, res))))

\* HeavyBall, Nesterov, Adam: if (alpha > params.minimum_step)
DecayGuard(a) == RLt(params.minimum_step, a)

\* Adam: alpha = initial_step * sqrt(1 - beta2_iter) / (1 - beta1_iter)
AdamRate(b1, b2) ==
    RDiv(RMul(params.initial_step, RSqrt(RSub(One, b2))), RSub(One, b1))

\* GradientDescent: decay is unconditional; Armijo's alpha is already chosen.
GradientDescentStep(a) ==
    CASE variant.T = "exponential" -> ExponentialDecay(a)
      [] variant.T = "inverse" -> InverseDecay(iteration, residual)
      [] OTHER -> a

\* Mutant: the decay is applied whatever alpha is.
MomentumStep_Unguarded(a) ==
    CASE variant.T = "exponential" -> ExponentialDecay(a)
      [] variant.T = "inverse" -> InverseDecay(iteration, residual)
      [] OTHER -> a

\* HeavyBall and Nesterov: decay only while alpha > minimum_step.
MomentumStep(a) ==
    IF DecayGuard(a)
    THEN CASE variant.T = "exponential" -> ExponentialDecay(a)
           [] variant.T = "inverse" -> InverseDecay(iteration, residual)
           [] OTHER -> a
    ELSE a

\* Mutant: the dynamic rate is recomputed whatever alpha is.
AdamStep_Unguarded(a) ==
    IF variant.T = "dynamic" THEN AdamRate(beta1_iter, beta2_iter) ELSE a

\* Adam: the dynamic rate only while alpha > minimum_step.
AdamStep(a) ==
    IF DecayGuard(a) /\ variant.T = "dynamic" THEN AdamRate(beta1_iter, beta2_iter) ELSE a

\* ------------------------------------------------------------------------
\* Momentum policies and the updates
\* ------------------------------------------------------------------------
\* Mutant: the dynamic strategy uses (1 - alpha) whatever alpha is.
Coefficient_AlwaysDynamic(a) ==
    IF variant.S = "dynamic" THEN RSub(One, a) ELSE params.eta

\* The memory coefficient: (1 - alpha) under dynamic when alpha < 1, else eta.
Coefficient(a) ==
    IF variant.S = "dynamic" /\ RLt(a, One) THEN RSub(One, a) ELSE params.eta

\* sqrt(vhat) + epsilon.  epsilon = 1/EpsilonInverse lies below the resolution
\* of every non-zero scalar of the model and is absorbed by the sum.
PlusEpsilon(s) == IF s = Zero THEN <<1, EpsilonInverse>> ELSE s

\* mhat / (sqrt(vhat) + epsilon), elementwise
AdamDirection(mhat, vhat) ==
    [i \in DOMAIN mhat |->
        IF mhat[i] = Zero THEN Zero ELSE RDiv(mhat[i], PlusEpsilon(RSqrt(vhat[i])))]

\* The end of an iteration: the step test, then ++iteration.
StepCheck(step) ==
    /\ step_size' = step
    /\ history' = Append(history, [x |-> x', alpha |-> alpha', step_size |-> step])
    /\ updates' = updates + 1
    /\ IF StepTest(step, params.tolerance_s)
       THEN /\ out' = Append(out, [msg |-> "ConvergedStep", iterations |-> iteration])
            /\ broke' = "step"
            /\ pc' = "exit"
            /\ iteration' = iteration
       ELSE /\ iteration' = iteration + 1
            /\ pc' = "head"
            /\ UNCHANGED <<out, broke>>

GradientDescentUpdate ==
    /\ pc = "update" /\ variant.method = "GradientDescent"
    /\ LET a == GradientDescentStep(alpha)
           xn == VSub(x, VScale(a, grad))
       IN  /\ alpha' = a
           /\ x_prev' = x
           /\ x' = xn
           /\ StepCheck(norm(VSub(xn, x)))
    /\ UNCHANGED <<program, fd, variant, params, family, base, call, runs, previous,
                   grad, grad_y, residual, d, y, m, v, beta1_iter,
                   beta2_iter, result, halvings>>

HeavyBallUpdate ==
    /\ pc = "update" /\ variant.method = "HeavyBall"
    /\ LET a == MomentumStep(alpha)
           dn == VSub(VScale(Coefficient(a), d), VScale(a, grad))
       IN  /\ alpha' = a
           /\ d' = dn
           /\ x_prev' = x
           /\ x' = VAdd(x, dn)
           /\ StepCheck(norm(dn))
    /\ UNCHANGED <<program, fd, variant, params, family, base, call, runs, previous,
                   grad, grad_y, residual, y, m, v, beta1_iter,
                   beta2_iter, result, halvings>>

\* Mutant: the step is taken from x in place of the lookahead point y.
NesterovUpdate_FromX ==
    /\ pc = "update" /\ variant.method = "Nesterov"
    /\ LET a == MomentumStep(alpha)
           xn == VSub(x, VScale(a, grad_y))
       IN  /\ alpha' = a
           /\ x_prev' = x
           /\ x' = xn
           /\ y' = VAdd(xn, VScale(Coefficient(a), VSub(xn, x)))
           /\ StepCheck(norm(VSub(xn, x)))
    /\ UNCHANGED <<program, fd, variant, params, family, base, call, runs, previous,
                   grad, grad_y, residual, d, m, v, beta1_iter,
                   beta2_iter, result, halvings>>

NesterovUpdate ==
    /\ pc = "update" /\ variant.method = "Nesterov"
    /\ LET a == MomentumStep(alpha)
           xn == VSub(y, VScale(a, grad_y))
       IN  /\ alpha' = a
           /\ x_prev' = x
           /\ x' = xn
           /\ y' = VAdd(xn, VScale(Coefficient(a), VSub(xn, x)))
           /\ StepCheck(norm(VSub(xn, x)))
    /\ UNCHANGED <<program, fd, variant, params, family, base, call, runs, previous,
                   grad, grad_y, residual, d, m, v, beta1_iter,
                   beta2_iter, result, halvings>>

\* Mutant: the raw moment estimates are used.
BiasCorrected_Raw(b, moment) == moment

\* mhat = 1 / (1 - beta1_iter) * m, vhat = 1 / (1 - beta2_iter) * v
BiasCorrected(b, moment) == VScale(RDiv(One, RSub(One, b)), moment)

AdamUpdate ==
    /\ pc = "update" /\ variant.method = "Adam"
    /\ LET mn == VAdd(VScale(params.beta1, m), VScale(RSub(One, params.beta1), grad))
           vn == VAdd(VScale(params.beta2, v),
                      VScale(RSub(One, params.beta2),
                             [i \in DOMAIN grad |-> RMul(grad[i], grad[i])]))
           mhat == BiasCorrected(beta1_iter, mn)
           vhat == BiasCorrected(beta2_iter, vn)
           a == AdamStep(alpha)
           xn == VSub(x, VScale(a, AdamDirection(mhat, vhat)))
       IN  /\ x_prev' = x
           /\ m' = mn
           /\ v' = vn
           /\ alpha' = a
           /\ x' = xn
           /\ beta1_iter' = RMul(beta1_iter, params.beta1)
           /\ beta2_iter' = RMul(beta2_iter, params.beta2)
           /\ StepCheck(norm(VSub(xn, x)))
    /\ UNCHANGED <<program, fd, variant, params, family, base, call, runs, previous,
                   grad, grad_y, residual, d, y, result, halvings>>

\* Mutant: off by one, the last allowed iteration counts as the cap.
NotConverged_OffByOne(it, max) == it >= max - 1

\* if (iteration == params.max_iterations)
NotConverged(it, max) == it = max

\* After the loop: the "Not converged" line, then return x.
Return ==
    /\ pc = "exit"
    /\ out' = IF NotConverged(iteration, params.max_iterations)
              THEN Append(out, [msg |-> "MaxIterationsReached", iterations |-> iteration])
              ELSE out
    /\ result' = x
    /\ pc' = "done"
    /\ UNCHANGED <<program, fd, variant, params, family, base, call, runs, history, previous,
                   x, alpha, iteration, grad, grad_y, residual, x_prev,
                   d, y, m, v, beta1_iter, beta2_iter, step_size, broke, halvings,
                   updates>>

Next ==
    \/ Run
    \/ HeadStep
    \/ LoopEnd
    \/ ArmijoHalve
    \/ ArmijoAccept
    \/ GradientDescentUpdate
    \/ HeavyBallUpdate
    \/ NesterovUpdate
    \/ AdamUpdate
    \/ Return

Spec == Init /\ [][Next]_vars

\* Objects of both families that are called up to MaxRuns times.
Families == {"core", "methods"}

CallParamsOf(var) ==
    {p \in ParamsOf(var) :
        /\ p.f = "sq" /\ p.initial_condition = <<One>>
        /\ p.tolerance_s = <<1, 4>> /\ p.minimum_step = <<1, 4>>
        /\ p.initial_step \in {Half, RInt(2)}
        /\ p.max_iterations = MaxIterations
        /\ p.mu = <<2, 3>> /\ p.sigma # <<9, 10>> /\ p.eta = Half
        /\ (var.method = "Adam" => p.beta2 = <<15, 16>>)}

CallInit ==
    /\ variant \in Variants
    /\ family \in Families
    /\ params \in CallParamsOf(variant)
    /\ Constructed

CallNext == Next \/ Rerun \/ Call

CallSpec == CallInit /\ [][CallNext]_vars

\* A call of operator()() runs to its return: every step it can take, it takes.
FairSpec == Spec /\ WF_vars(Next)

\* ------------------------------------------------------------------------
\* One call of gradient(f, h)(x) or hessian(f, h)(x): std::transform and
\* std::for_each with std::execution::par run one task per index, in any
\* interleaving.
\* ------------------------------------------------------------------------
FDExpressions == {"sq", "lin", "quad", "cubic", "cube"}

Steps == {Half, One}

Points == {<<One>>, <<One, One>>, <<Zero, RInt(2)>>, <<RInt(-1), One>>}

\* The task of index i before it has run.  A task that calls the expression
\* evaluator starts by assigning the argument of its first evaluation.
Task(callable, n) ==
    [pc |-> IF callable = "function" THEN "ready" ELSE "assign",
     call |-> 1, k |-> 1, val |-> <<>>, M_value |-> VZero(n)]

\* The callable has been called with x: grad (or hessian) is zero and no
\* task has run.  shared: the tasks invoke one closure, and so one copy of f;
\* otherwise the library has given each task a copy of the closure.
Evaluation(mode, callable, shared, e, DT, h, p) ==
    [mode |-> mode, callable |-> callable, shared |-> shared,
     e |-> e, DT |-> DT, h |-> h, x |-> p, pc |-> "running",
     grad |-> IF mode = "gradient" THEN VZero(Len(p))
              ELSE [i \in DOMAIN p |-> VZero(Len(p))],
     task |-> [i \in DOMAIN p |-> Task(callable, Len(p))],
     M_value |-> VZero(Len(p))]

\* The optimizers take no part in an evaluation.
NoOptimizer ==
    /\ variant = [method |-> "GradientDescent", T |-> "armijo", S |-> "none"]
    /\ family = "core"
    /\ params = CHOOSE p \in ParamsOf(variant) : TRUE
    /\ base = BaseOf(params)
    /\ pc = "idle"
    /\ x = <<>> /\ alpha = Zero /\ iteration = 0
    /\ grad = <<>> /\ grad_y = <<>> /\ residual = Zero /\ x_prev = <<>>
    /\ d = <<>> /\ y = <<>> /\ m = <<>> /\ v = <<>>
    /\ beta1_iter = Zero /\ beta2_iter = Zero
    /\ step_size = Zero /\ out = <<>> /\ result = <<>>
    /\ broke = "none" /\ halvings = 0 /\ updates = 0
    /\ call = NoCall /\ runs = 0 /\ history = <<>> /\ previous = NoRun

\* f is a function: a lambda or any callable without state.
DifferenceInit ==
    /\ NoOptimizer
    /\ program = NoProgram
    /\ \E mode \in {"gradient", "hessian"}, e \in FDExpressions,
          DT \in DifferenceType, h \in Steps, p \in Points :
         fd = Evaluation(mode, "function", FALSE, e, DT, h, p)

\* gradient: task i is compute_single_gradient(i), written to grad(i).
Coordinate(i) ==
    /\ fd.mode = "gradient" /\ fd.callable = "function"
    /\ fd.pc = "running" /\ fd.task[i].pc = "ready"
    /\ ~DifferenceRaises(Function(fd.e), fd.DT, fd.h, fd.x, i)
    /\ fd' = [fd EXCEPT
                !.grad[i] = compute_single_gradient(Function(fd.e), fd.DT, fd.h, fd.x, i),
                !.task[i].pc = "done"]
    /\ UNCHANGED <<program, optimizer>>

\* An element access function of a parallel algorithm exits with an
\* exception: std::terminate is called ([algorithms.parallel.exceptions]).
CoordinateRaise(i) ==
    /\ fd.mode = "gradient" /\ fd.callable = "function"
    /\ fd.pc = "running" /\ fd.task[i].pc = "ready"
    /\ DifferenceRaises(Function(fd.e), fd.DT, fd.h, fd.x, i)
    /\ fd' = [fd EXCEPT !.pc = "terminated"]
    /\ UNCHANGED <<program, optimizer>>

\* A call of f made for row i exits with an exception.
RowRaises(i) ==
    \E j \in DOMAIN fd.x :
        DifferenceRaises(grad_i(fd.e, fd.h, fd.DT, i), otherType(fd.DT), fd.h, fd.x, j)

RowRaise(i) ==
    /\ fd.mode = "hessian" /\ fd.callable = "function"
    /\ fd.pc = "running" /\ fd.task[i].pc = "ready"
    /\ RowRaises(i)
    /\ fd' = [fd EXCEPT !.pc = "terminated"]
    /\ UNCHANGED <<program, optimizer>>

\* hessian: task i is hessian.row(i) = grad_grad_i(x).
Row(i) ==
    /\ fd.mode = "hessian" /\ fd.callable = "function"
    /\ fd.pc = "running" /\ fd.task[i].pc = "ready"
    /\ ~RowRaises(i)
    /\ fd' = [fd EXCEPT
                !.grad[i] = hessian_row(fd.e, fd.h, fd.DT, fd.x, i),
                !.task[i].pc = "done"]
    /\ UNCHANGED <<program, optimizer>>

\* The algorithm returns when every task has: return grad / return hessian.
Join ==
    /\ fd.mode \in {"gradient", "hessian"} /\ fd.pc = "running"
    /\ \A i \in DOMAIN fd.task : fd.task[i].pc = "done"
    /\ fd' = [fd EXCEPT !.pc = "returned"]
    /\ UNCHANGED <<program, optimizer>>

DifferenceNext ==
    \/ \E i \in DOMAIN fd.task : Coordinate(i)
    \/ \E i \in DOMAIN fd.task : Row(i)
    \/ Join

DifferenceSpec == DifferenceInit /\ [][DifferenceNext]_vars

\* ------------------------------------------------------------------------
\* Second derivatives: one call of hessian(f, h)(x), or of
\* derive_2D<N, ...>(f, h)(x) for a bivariate f.
\* ------------------------------------------------------------------------
Orders == 1..2

\* The callable returned by derive_2D has been called with p.
Derivation(N, e, DT, h, p) ==
    [mode |-> "derive_2D", N |-> N, e |-> e, DT |-> DT, h |-> h, x |-> p,
     pc |-> "running", grad |-> <<>>]

SecondOrderInit ==
    /\ NoOptimizer
    /\ program = NoProgram
    /\ \E e \in FDExpressions, DT \in DifferenceType, h \in Steps, p \in Points :
         \/ fd = Evaluation("hessian", "function", FALSE, e, DT, h, p)
         \/ \E N \in Orders : Len(p) = 2 /\ fd = Derivation(N, e, DT, h, p)

\* The nested lambdas of derive_2D run in the calling thread.
Derive ==
    /\ fd.mode = "derive_2D" /\ fd.pc = "running"
    /\ fd' = [fd EXCEPT !.grad = derive_2D(fd.N, fd.e, fd.DT, fd.h, fd.x),
                        !.pc = "returned"]
    /\ UNCHANGED <<program, optimizer>>

SecondOrderNext ==
    \/ \E i \in DOMAIN fd.x : Row(i)
    \/ Join
    \/ Derive

SecondOrderSpec == SecondOrderInit /\ [][SecondOrderNext]_vars

\* The argument of the nth evaluation of f in compute_single_gradient:
\* the operands of the difference, left to right.
Operand(DT, p, i, h, nth) ==
    CASE DT = "Forward" -> IF nth = 1 THEN Perturbed(p, i, h) ELSE p
      [] DT = "Backward" -> IF nth = 1 THEN p ELSE Perturbed(p, i, RNeg(h))
      [] DT = "Centered" -> IF nth = 1 THEN Perturbed(p, i, h)
                                         ELSE Perturbed(p, i, RNeg(h))

\* The variable storage the parser of task i reads: M_value of the one f of
\* the closure, or of the task's own copy.
Storage(i) == IF fd.shared THEN fd.M_value ELSE fd.task[i].M_value

\* muParserXInterface::operator(): M_value.At(k) = x(k), one k at a time.
Assign(i) ==
    /\ fd.mode = "gradient" /\ fd.callable = "parser"
    /\ fd.pc = "running" /\ fd.task[i].pc = "assign"
    /\ LET t == fd.task[i]
           arg == Operand(fd.DT, fd.x, i, fd.h, t.call)
           after == [t EXCEPT !.k = IF t.k = Len(fd.x) THEN 1 ELSE t.k + 1,
                              !.pc = IF t.k = Len(fd.x) THEN "eval" ELSE "assign"]
       IN  fd' = IF fd.shared
                 THEN [fd EXCEPT !.M_value[t.k] = arg[t.k], !.task[i] = after]
                 ELSE [fd EXCEPT !.task[i] = [after EXCEPT !.M_value[t.k] = arg[t.k]]]
    /\ UNCHANGED <<program, optimizer>>

\* muParserXInterface::operator(): val = M_parser.Eval() reads the storage;
\* after the second evaluation the difference is returned into grad(i).
Eval(i) ==
    /\ fd.mode = "gradient" /\ fd.callable = "parser"
    /\ fd.pc = "running" /\ fd.task[i].pc = "eval"
    /\ LET t == fd.task[i]
           val == Append(t.val, f(fd.e, Storage(i)))
       IN  IF t.call = 1
           THEN fd' = [fd EXCEPT !.task[i] = [t EXCEPT !.val = val, !.call = 2,
                                                       !.pc = "assign"]]
           ELSE fd' = [fd EXCEPT
                         !.task[i] = [t EXCEPT !.val = val, !.pc = "done"],
                         !.grad[i] = CASE fd.DT = "Forward" ->
                                            Difference(fd.DT, val[1], val[2], Zero, fd.h)
                                       [] fd.DT = "Backward" ->
                                            Difference(fd.DT, Zero, val[1], val[2], fd.h)
                                       [] fd.DT = "Centered" ->
                                            Difference(fd.DT, val[1], Zero, val[2], fd.h)]
    /\ UNCHANGED <<program, optimizer>>

\* f is a function, or the expression evaluator the configuration readers
\* pass to gradient().
EvaluatorInit ==
    /\ NoOptimizer
    /\ program = NoProgram
    /\ \/ \E mode \in {"gradient", "hessian"}, e \in FDExpressions,
             DT \in DifferenceType, h \in Steps, p \in Points :
            fd = Evaluation(mode, "function", FALSE, e, DT, h, p)
       \/ \E shared \in BOOLEAN, e \in FDExpressions,
             DT \in DifferenceType, h \in Steps, p \in Points :
            fd = Evaluation("gradient", "parser", shared, e, DT, h, p)

EvaluatorNext ==
    \/ DifferenceNext
    \/ \E i \in DOMAIN fd.task : Assign(i)
    \/ \E i \in DOMAIN fd.task : Eval(i)

EvaluatorSpec == EvaluatorInit /\ [][EvaluatorNext]_vars

\* ------------------------------------------------------------------------
\* Callables that raise: an optimizer run, or one finite-difference
\* evaluation, with a callable that exits with an exception outside its
\* domain.
\* ------------------------------------------------------------------------
RaiseParamsOf(var) ==
    {[p EXCEPT !.f = "dom", !.grad_f = "dom"] : p \in {q \in ParamsOf(var) : q.f = "sq"}}

RaiseInit ==
    \/ /\ variant \in Variants
       /\ family = "core"
       /\ params \in RaiseParamsOf(variant)
       /\ Constructed
    \/ /\ NoOptimizer
       /\ program = NoProgram
       /\ \E mode \in {"gradient", "hessian"}, DT \in DifferenceType,
             h \in Steps, p \in Points :
            fd = Evaluation(mode, "function", FALSE, "dom", DT, h, p)

RaiseNext ==
    \/ Next
    \/ HeadRaise
    \/ ArmijoRaise
    \/ fd # NoEvaluation /\ DifferenceNext
    \/ fd # NoEvaluation /\ \E i \in DOMAIN fd.task : CoordinateRaise(i)
    \/ fd # NoEvaluation /\ \E i \in DOMAIN fd.task : RowRaise(i)

RaiseSpec == RaiseInit /\ [][RaiseNext]_vars

\* ------------------------------------------------------------------------
\* Configuration: the readers of read.cpp and readnew.cpp, the dispatchers
\* of run.cpp, and main.
\* ------------------------------------------------------------------------
\* A key the data file does not hold.
Absent == "<absent>"

\* datafile(key, default): the value of the key, the default without one.
Lookup(value, default) == IF value = Absent THEN default ELSE value

\* The data files: the entries of initial_condition, fd and fd_t.
DataFiles ==
    [initial_condition : {<<>>} \cup Points,
     fd : BOOLEAN,
     fd_t : {Absent, "Forward", "Backward", "Centered"}]

\* The members of a parameter struct, in declaration order.
Members(type) ==
    <<"f", "grad_f", "initial_condition", "tolerance_r", "tolerance_s",
      "initial_step", "max_iterations", "minimum_step">>
    \o CASE type = "GradientDescentParams" -> <<"sigma", "mu">>
         [] type \in {"HeavyBallParams", "NesterovParams"} -> <<"mu", "eta">>
         [] type = "AdamParams" -> <<"mu", "beta1", "beta2">>
         [] OTHER -> <<>>

ParamsTypes == {"GradientDescentParams", "HeavyBallParams", "NesterovParams", "AdamParams"}

\* An object of the type whose members were never assigned.
Unset == [unset |-> TRUE]

DefaultParams(type) == [type |-> type, member |-> [n \in {} |-> Unset]]

\* params = {...}: the initializers go to the members in declaration order.
ListInitialized(type, list) ==
    [type |-> type,
     member |-> [n \in {Members(type)[i] : i \in 1..Len(list)} |->
                    list[CHOOSE i \in 1..Len(list) : Members(type)[i] = n]]]

\* The scalar read from a key of the data file (or the key's default).
Scalar(key) == [key |-> key]

\* muParserXScalarInterface(expression, N), muParserXVectorInterface(expression, N):
\* an evaluator whose operator() copies N entries of its argument.
muParserXInterface(N) == [callable |-> "muParserX", N |-> N]

\* A std::function without a target.
EmptyFunction == [callable |-> "empty"]

vector_variable_size(datafile) == Len(datafile.initial_condition)

\* The initial condition: the entries of the data file, or two zeros.
ReadInitialCondition(datafile) ==
    LET N == vector_variable_size(datafile)
    IN  IF N > 0 THEN [i \in 1..N |-> datafile.initial_condition[i]]
        ELSE VZero(2)

\* if (fd): the finite-difference gradient of f that fd_t selects.
df_grad_f(datafile, F) ==
    LET fd_t == Lookup(datafile.fd_t, "Centered")
    IN  [callable |-> "gradient",
         DT |-> IF fd_t = "Forward" THEN "Forward"
                ELSE IF fd_t = "Backward" THEN "Backward" ELSE "Centered",
         f |-> F]

\* The per-algorithm readers: both branches build the record from f, the
\* gradient of the branch, and the scalars.
ReadParams(type, datafile, specific) ==
    LET N == vector_variable_size(datafile)
        F == muParserXInterface(N)
        G == IF datafile.fd THEN df_grad_f(datafile, F) ELSE muParserXInterface(N)
    IN  ListInitialized(type,
            <<F, G, ReadInitialCondition(datafile), Scalar("tolerance_r"),
              Scalar("tolerance_s"), Scalar("initial_step"),
              Scalar("max_iterations"), Scalar("minimum_step")>> \o specific)

read_gradient_descent(datafile) ==
    ReadParams("GradientDescentParams", datafile, <<Scalar("sigma"), Scalar("mu")>>)

read_heavy_ball(datafile) ==
    ReadParams("HeavyBallParams", datafile, <<Scalar("mu"), Scalar("eta")>>)

read_nesterov(datafile) ==
    ReadParams("NesterovParams", datafile, <<Scalar("mu"), Scalar("eta_nest")>>)

read_adam(datafile) ==
    ReadParams("AdamParams", datafile, <<Scalar("mu"), Scalar("beta1"), Scalar("beta2")>>)

\* The generic reader: the gradient built in the else branch is a local of
\* that block; the grad_f declared before the if is what the record gets.
read(datafile, incoming) ==
    LET N == vector_variable_size(datafile)
        F == muParserXInterface(N)
        G == IF datafile.fd THEN df_grad_f(datafile, F) ELSE EmptyFunction
        common == <<F, G, ReadInitialCondition(datafile), Scalar("tolerance_r"),
                    Scalar("tolerance_s"), Scalar("initial_step"),
                    Scalar("max_iterations"), Scalar("minimum_step")>>
    IN  CASE incoming.type = "GradientDescentParams" ->
               ListInitialized(incoming.type, common \o <<Scalar("sigma"), Scalar("mu")>>)
          [] incoming.type = "HeavyBallParams" ->
               ListInitialized(incoming.type, common \o <<Scalar("mu"), Scalar("eta")>>)
          [] incoming.type = "NesterovParams" ->
               ListInitialized(incoming.type, common \o <<Scalar("mu"), Scalar("eta_nest")>>)
          [] incoming.type = "AdamParams" ->
               ListInitialized(incoming.type,
                   common \o <<Scalar("mu"), Scalar("beta1"), Scalar("beta2")>>)
          [] OTHER -> incoming

\* What a dispatcher did: the solver it ran and what it wrote to std::cerr.
NoSolver == [method |-> "none", T |-> "none", S |-> "none"]

Ran(solver) == [solver |-> solver, cerr |-> <<>>]

Invalid(message) == [solver |-> NoSolver, cerr |-> <<message>>]

Nothing == [solver |-> NoSolver, cerr |-> <<>>]

run_gradient_descent(gradient_method_t) ==
    IF gradient_method_t = "Exponential decay"
    THEN Ran([method |-> "GradientDescent", T |-> "exponential", S |-> "none"])
    ELSE IF gradient_method_t = "Inverse decay"
    THEN Ran([method |-> "GradientDescent", T |-> "inverse", S |-> "none"])
    ELSE IF gradient_method_t = "Armijo rule"
    THEN Ran([method |-> "GradientDescent", T |-> "armijo", S |-> "none"])
    ELSE Invalid("Invalid gradient method type")

\* run_heavy_ball and run_nesterov: the outer chain on the step rule has no
\* final else.
TwoSelectors(method, t, s) ==
    LET inner(T) ==
            IF s = "Dynamic" THEN Ran([method |-> method, T |-> T, S |-> "dynamic"])
            ELSE IF s = "Constant" THEN Ran([method |-> method, T |-> T, S |-> "constant"])
            ELSE Invalid("Invalid method type")
    IN  IF t = "Exponential decay" THEN inner("exponential")
        ELSE IF t = "Inverse decay" THEN inner("inverse")
        ELSE IF t = "Constant" THEN inner("constant")
        ELSE Nothing

run_heavy_ball(heavy_ball_t, heavy_ball_s) ==
    TwoSelectors("HeavyBall", heavy_ball_t, heavy_ball_s)

run_nesterov(nesterov_t, nesterov_s) ==
    TwoSelectors("Nesterov", nesterov_t, nesterov_s)

run_adam(adam_t) ==
    IF adam_t = "Dynamic" THEN Ran([method |-> "Adam", T |-> "dynamic", S |-> "none"])
    ELSE IF adam_t = "Constant" THEN Ran([method |-> "Adam", T |-> "constant", S |-> "none"])
    ELSE Invalid("Invalid method type")

\* The selector strings of a data file: the strings of the dispatchers, one
\* that none of them knows, or no entry.
Selectors ==
    {Absent, "Exponential decay", "Inverse decay", "Armijo rule", "Constant",
     "Dynamic", "Newton"}

\* main before its first block, and a client before it calls read.
ProgramInit ==
    /\ NoOptimizer
    /\ fd = NoEvaluation
    /\ \E datafile \in DataFiles, entry \in {"gradient_descent", "read"} :
         program = [pc |-> entry, datafile |-> datafile,
                    params |-> DefaultParams("none"),
                    selectors |-> <<>>, launched |-> Nothing]

\* One block of main: if the family is enabled, read its parameters and
\* dispatch on its selectors; then go on to the next block.
Block(at, next, enabled, selectors, record, launched) ==
    /\ program.pc = at
    /\ program' = IF enabled
                  THEN [program EXCEPT !.pc = next, !.params = record,
                                       !.selectors = selectors,
                                       !.launched = launched]
                  ELSE [program EXCEPT !.pc = next,
                                       !.params = DefaultParams("none"),
                                       !.selectors = <<>>, !.launched = Nothing]
    /\ UNCHANGED <<optimizer, fd>>

MainGradientDescent ==
    \E enabled \in BOOLEAN, gradient_method_t \in Selectors :
        Block("gradient_descent", "heavy_ball", enabled, <<gradient_method_t>>,
              read_gradient_descent(program.datafile),
              run_gradient_descent(Lookup(gradient_method_t, "Armijo rule")))

MainHeavyBall ==
    \E enabled \in BOOLEAN, heavy_ball_t \in Selectors, heavy_ball_s \in Selectors :
        Block("heavy_ball", "nesterov", enabled, <<heavy_ball_t, heavy_ball_s>>,
              read_heavy_ball(program.datafile),
              run_heavy_ball(Lookup(heavy_ball_t, "Exponential decay"),
                             Lookup(heavy_ball_s, "Constant")))

MainNesterov ==
    \E enabled \in BOOLEAN, nesterov_t \in Selectors, nesterov_s \in Selectors :
        Block("nesterov", "adam", enabled, <<nesterov_t, nesterov_s>>,
              read_nesterov(program.datafile),
              run_nesterov(Lookup(nesterov_t, "Exponential decay"),
                           Lookup(nesterov_s, "Constant")))

MainAdam ==
    \E enabled \in BOOLEAN, adam_t \in Selectors :
        Block("adam", "exit", enabled, <<adam_t>>,
              read_adam(program.datafile),
              run_adam(Lookup(adam_t, "Exponential decay")))

\* A client calls read(datafile, params) on a record of one of the types.
Read ==
    /\ program.pc = "read"
    /\ \E type \in ParamsTypes \cup {"Params"} :
         program' = [program EXCEPT
                        !.pc = "returned",
                        !.params = read(program.datafile, DefaultParams(type))]
    /\ UNCHANGED <<optimizer, fd>>

ProgramNext ==
    \/ MainGradientDescent
    \/ MainHeavyBall
    \/ MainNesterov
    \/ MainAdam
    \/ Read

ProgramSpec == ProgramInit /\ [][ProgramNext]_vars

TypeOK ==
    /\ pc \in {"idle", "head", "armijo", "update", "exit", "done", "raised"}
    /\ iteration \in 0..params.max_iterations
    /\ broke \in {"none", "residual", "step"}

\* ------------------------------------------------------------------------
\* Properties
\* ------------------------------------------------------------------------
Statuses == {"ConvergedResidual", "ConvergedStep", "MaxIterationsReached"}

\* C1: every run ends with exactly one status line, one of the three terminal
\* statuses, and returns a point; MaxIterationsReached is reported iff no
\* break left the loop, after max_iterations updates; a step test that fires
\* in the last allowed iteration is reported as ConvergedStep.
C1_ExactlyOneStatus ==
    pc = "done" =>
        /\ Len(out) = 1
        /\ out[1].msg \in Statuses
        /\ result = x /\ Len(result) = Dim
        /\ (out[1].msg = "MaxIterationsReached") <=> (broke = "none")
        /\ (out[1].msg = "ConvergedStep") <=> (broke = "step")
        /\ (out[1].msg = "ConvergedResidual") <=> (broke = "residual")
        /\ broke = "none" => updates = params.max_iterations

C1_Witness ==
    /\ pc = "done"
    /\ broke = "step"
    /\ updates = params.max_iterations
    /\ params.max_iterations > 1
    /\ out = <<[msg |-> "ConvergedStep", iterations |-> params.max_iterations - 1]>>

\* The number of times a0 can be halved before it is <= min.
RECURSIVE HalvingBound(_, _)
HalvingBound(a0, min) ==
    IF a0[1] * min[2] <= min[1] * a0[2] THEN 0
    ELSE 1 + HalvingBound(<<a0[1], 2 * a0[2]>>, min)

C2_Bounded ==
    /\ iteration <= params.max_iterations
    /\ updates <= params.max_iterations
    /\ halvings <= HalvingBound(params.initial_step, params.minimum_step)

\* The number of steps a run can still take, at most: each outer iteration is
\* a loop head, at most HalvingBound halvings, the loop exit and the update.
Rank ==
    LET H == HalvingBound(params.initial_step, params.minimum_step)
        W == H + 3
        left == 2 + (params.max_iterations - iteration) * W
    IN  CASE pc = "done" -> 0
          [] pc = "exit" -> 1
          [] pc = "update" -> left
          [] pc = "armijo" -> left + 1 + (H - halvings)
          [] pc = "head" -> left + W - 1
          [] OTHER -> 2 + (params.max_iterations + 2) * W

\* C2: every run terminates: at most max_iterations iterations and point
\* updates, in each outer iteration at most as many Armijo halvings as
\* initial_step can be halved before it is <= minimum_step, and every step
\* of a run strictly decreases the bounded number of steps left.
C2_Terminates ==
    /\ [](C2_Bounded /\ Rank >= 0)
    /\ [][Rank' < Rank]_vars

C2_Witness ==
    /\ pc = "done"
    /\ variant.T = "armijo"
    /\ updates = params.max_iterations
    /\ updates > 1
    /\ halvings = HalvingBound(params.initial_step, params.minimum_step)
    /\ halvings >= 3

\* C3: when the residual test fires the run stops before any update of that
\* iteration: the returned point is the tested point, its gradient norm is
\* below tolerance_r, and a test passed at once returns initial_condition
\* with no update.
C3_ResidualStop ==
    (pc = "done" /\ broke = "residual") =>
        /\ result = x
        /\ residual = norm(grad_f(params.grad_f, result))
        /\ RLt(norm(grad_f(params.grad_f, result)), params.tolerance_r)
        /\ updates = iteration
        /\ iteration = 0 => (result = params.initial_condition /\ updates = 0)

C3_Witness ==
    /\ pc = "done"
    /\ broke = "residual"
    /\ updates >= 1
    /\ result # params.initial_condition

\* C4: the step test reads the update of the same iteration: the measure is
\* norm(x' - x), in HeavyBall norm(d) where x' = x + d always, and when it
\* is < tolerance_s the run stops and returns the updated point.
C4_StepStop ==
    /\ (updates > 0 /\ pc # "idle") =>
          IF variant.method = "HeavyBall"
          THEN step_size = norm(d) /\ x = VAdd(x_prev, d)
          ELSE step_size = norm(VSub(x, x_prev))
    /\ (pc = "done" /\ broke = "step") =>
          /\ result = x
          /\ RLt(step_size, params.tolerance_s)
          /\ updates = iteration + 1

C4_Witness ==
    /\ pc = "done"
    /\ broke = "step"
    /\ variant.method = "HeavyBall"
    /\ updates >= 2
    /\ result # x_prev

\* States in which residual holds the norm HeadStep has just compared.
ResidualJustTested == pc \in {"armijo", "update"} \/ (pc \in {"exit", "done"} /\ broke = "residual")

\* C5 (as claimed): in Nesterov the norm compared with tolerance_r is that of
\* the gradient at the lookahead point y.
C5_Original ==
    (variant.method = "Nesterov" /\ ResidualJustTested) =>
        residual = norm(grad_f(params.grad_f, y))

\* C5 (amended): in Nesterov the norm compared with tolerance_r is that of the
\* gradient at the current point x; the gradient at y is normalised and used
\* in the update only.
C5_TestedAtX ==
    (variant.method = "Nesterov" /\ ResidualJustTested) =>
        /\ residual = norm(grad_f(params.grad_f, x))
        /\ broke = "residual" <=> RLt(norm(grad_f(params.grad_f, x)), params.tolerance_r)
        /\ pc = "update" => grad_y = normalize(grad_f(params.grad_f, y))

C5_Witness ==
    /\ variant.method = "Nesterov"
    /\ pc = "done"
    /\ broke = "residual"
    /\ x # y
    /\ ~RLt(norm(grad_f(params.grad_f, y)), params.tolerance_r)

\* f(x) - f(x - a*grad) >= sigma * a * ||grad||^2
SufficientDecrease(a) ==
    RLe(RMul(RMul(params.sigma, a), squaredNorm(grad)),
        RSub(f(params.f, x), f(params.f, VSub(x, VScale(a, grad)))))

ArmijoExited == variant.T = "armijo" /\ pc = "update"

\* C6 (as claimed): whenever the backtracking loop exits, the accepted alpha
\* satisfies the sufficient-decrease inequality.
C6_Original == ArmijoExited => SufficientDecrease(alpha)

\* C6 (amended): whenever the backtracking loop exits, the accepted alpha
\* satisfies the sufficient-decrease inequality or alpha <= minimum_step.
C6_DecreaseOrFloor ==
    ArmijoExited => (SufficientDecrease(alpha) \/ RLe(alpha, params.minimum_step))

C6_Witness ==
    /\ ArmijoExited
    /\ halvings >= 1
    /\ RLt(params.minimum_step, alpha)
    /\ SufficientDecrease(alpha)

\* C7: backtracking restarts from initial_step in every outer iteration and
\* only halves: alpha = initial_step / 2^k, k = 0 when initial_step <=
\* minimum_step, and otherwise alpha > minimum_step / 2.
C7_HalvingOnly ==
    ArmijoExited =>
        /\ RMul(alpha, RInt(Pow2(halvings))) = params.initial_step
        /\ RLe(params.initial_step, params.minimum_step) => halvings = 0
        /\ RLt(params.minimum_step, params.initial_step) =>
               RLt(RMul(params.minimum_step, Half), alpha)

C7_Witness ==
    /\ ArmijoExited
    /\ iteration >= 1
    /\ halvings >= 1
    /\ RLe(alpha, params.minimum_step)

Guarded == variant.method \in {"HeavyBall", "Nesterov"}

FloorFactor == RMul(params.minimum_step, ExpNeg(params.mu))

\* C8 (as claimed): under exponential decay every optimizer multiplies alpha
\* by exp(-mu) only when alpha > minimum_step, hence with initial_step >
\* minimum_step alpha never drops below minimum_step * exp(-mu).
C8_Original ==
    (variant.T = "exponential" /\ pc # "idle"
        /\ RLt(params.minimum_step, params.initial_step)) =>
        RLe(FloorFactor, alpha)

\* C8 (amended): under exponential decay HeavyBall and Nesterov multiply alpha
\* by exp(-mu) only in iterations where alpha > minimum_step, so there alpha
\* never drops below minimum_step * exp(-mu) when initial_step > minimum_step;
\* GradientDescent multiplies alpha by exp(-mu) in every iteration.
C8_GuardedDecay ==
    /\ [][(variant.T = "exponential" /\ pc = "update") =>
            alpha' = IF Guarded /\ ~RLt(params.minimum_step, alpha)
                     THEN alpha
                     ELSE RMul(alpha, ExpNeg(params.mu))]_vars
    /\ [][(variant.T = "exponential" /\ pc \notin {"idle", "update"}) =>
            alpha' = alpha]_vars
    /\ []((variant.T = "exponential" /\ Guarded /\ pc # "idle"
            /\ RLt(params.minimum_step, params.initial_step)) =>
            RLe(FloorFactor, alpha))

C8_Witness ==
    /\ variant.T = "exponential"
    /\ Guarded
    /\ updates = 3
    /\ RLt(params.minimum_step, params.initial_step)
    /\ RLe(alpha, params.minimum_step)
    /\ alpha = RMul(params.initial_step, ExpNeg(params.mu))

\* initial_step / (1 + mu * k / ||g||), g the raw gradient at point p
InverseRate(k, p) ==
    RDiv(params.initial_step,
         RAdd(One, RDiv(RMul(params.mu, RInt(k)), norm(grad_f(params.grad_f, p)))))

\* C9: under inverse decay the step of 0-based iteration k is
\* initial_step / (1 + mu*k/||grad_f(x)||), computed from initial_step and so
\* equal to it at k = 0; HeavyBall and Nesterov recompute it only while the
\* current alpha > minimum_step and otherwise keep alpha.
C9_InverseDecay ==
    [][(variant.T = "inverse" /\ pc = "update") =>
         /\ alpha' = IF Guarded /\ ~RLt(params.minimum_step, alpha)
                     THEN alpha
                     ELSE InverseRate(iteration, x)
         /\ iteration = 0 => alpha' = params.initial_step]_vars

C9_Witness ==
    /\ variant.T = "inverse"
    /\ updates = 3
    /\ iteration = 3
    /\ RLt(params.minimum_step, alpha)
    /\ alpha = InverseRate(2, x_prev)
    /\ alpha # RDiv(params.initial_step, RAdd(One, RMul(params.mu, RInt(2))))
    /\ RLt(alpha, params.initial_step)

\* initial_step * sqrt(1 - beta2^t) / (1 - beta1^t)
BiasCorrectedRate(t) ==
    RDiv(RMul(params.initial_step, RSqrt(RSub(One, RPow(params.beta2, t)))),
         RSub(One, RPow(params.beta1, t)))

\* C10: Adam with the dynamic rate sets alpha in iteration t (1-based) to
\* initial_step*sqrt(1-beta2^t)/(1-beta1^t) only when the current alpha >
\* minimum_step; once alpha <= minimum_step it never changes again; with the
\* constant tag alpha is initial_step throughout.
C10_AdamRate ==
    /\ [][(variant.method = "Adam" /\ pc = "update") =>
            alpha' = IF variant.T = "dynamic" /\ RLt(params.minimum_step, alpha)
                     THEN BiasCorrectedRate(iteration + 1)
                     ELSE alpha]_vars
    /\ [][(variant.method = "Adam" /\ pc # "idle"
            /\ RLe(alpha, params.minimum_step)) => alpha' = alpha]_vars
    /\ []((variant.method = "Adam" /\ variant.T = "constant" /\ pc # "idle") =>
            alpha = params.initial_step)

C10_Witness ==
    /\ variant.method = "Adam"
    /\ variant.T = "dynamic"
    /\ updates = 3
    /\ RLt(params.minimum_step, params.initial_step)
    /\ RLe(alpha, params.minimum_step)
    /\ alpha = BiasCorrectedRate(1)
    /\ alpha # BiasCorrectedRate(3)

\* g / ||g|| for the raw gradient g at p (||g|| > 0 after the residual test)
UnitGradient(p) ==
    LET g == grad_f(params.grad_f, p) IN VScale(RDiv(One, norm(g)), g)

\* c as claimed: (1 - a) under dynamic when a < 1, eta otherwise.
MemoryCoefficient(a) ==
    IF variant.S = "dynamic"
    THEN (IF RLt(a, One) THEN RSub(One, a) ELSE params.eta)
    ELSE params.eta

\* C11: HeavyBall starts with d = 0 and in every iteration sets
\* d' = c*d - alpha'*g_hat and x' = x + d', g_hat the unit gradient at x,
\* alpha' the step after the decay of this iteration, c = 1 - alpha' under
\* dynamic when alpha' < 1 and c = eta otherwise.
C11_HeavyBallUpdate ==
    /\ []((variant.method = "HeavyBall" /\ pc = "head" /\ iteration = 0) =>
            d = VZero(Dim))
    /\ [][(variant.method = "HeavyBall" /\ pc = "update") =>
            /\ d' = VSub(VScale(MemoryCoefficient(alpha'), d),
                         VScale(alpha', UnitGradient(x)))
            /\ x' = VAdd(x, d')]_vars

C11_Witness ==
    /\ variant.method = "HeavyBall"
    /\ variant.S = "dynamic"
    /\ updates = 2
    /\ RLt(alpha, One)
    /\ RLt(params.minimum_step, alpha)
    /\ d # VZero(Dim)
    /\ d # VScale(RNeg(alpha), UnitGradient(x_prev))
    /\ x = VAdd(x_prev, d)

\* C12: Nesterov starts with x = y = initial_condition and in every iteration
\* sets x' = y - alpha'*g_hat(y), g_hat(y) the gradient at y divided by its
\* norm (the zero vector when the gradient at y is zero), and
\* y' = x' + c*(x' - x) with c chosen as in HeavyBall.
C12_NesterovUpdate ==
    /\ []((variant.method = "Nesterov" /\ pc = "head" /\ iteration = 0) =>
            (x = params.initial_condition /\ y = params.initial_condition))
    /\ [][(variant.method = "Nesterov" /\ pc = "update") =>
            LET gy == grad_f(params.grad_f, y)
                unit == IF norm(gy) = Zero THEN VZero(Dim) ELSE UnitGradient(y)
            IN  /\ x' = VSub(y, VScale(alpha', unit))
                /\ y' = VAdd(x', VScale(MemoryCoefficient(alpha'), VSub(x', x)))]_vars

C12_Witness ==
    /\ variant.method = "Nesterov"
    /\ updates >= 1
    /\ pc = "update"
    /\ x # y
    /\ norm(grad_f(params.grad_f, y)) = Zero
    /\ grad_y = VZero(Dim)

\* C13: GradientDescent updates x' = x - alpha'*g_hat with the unit gradient
\* under exponential and inverse decay, so the update has length alpha';
\* under Armijo the sufficient-decrease test and the update x' = x - alpha'*g
\* use the raw gradient g, so the update has length alpha'*||g||.
C13_Normalization ==
    /\ [][(variant.method = "GradientDescent" /\ pc = "update"
            /\ variant.T \in {"exponential", "inverse"}) =>
            /\ x' = VSub(x, VScale(alpha', UnitGradient(x)))
            /\ norm(VScale(alpha', UnitGradient(x))) = alpha'
            /\ step_size' = alpha']_vars
    /\ [][(variant.method = "GradientDescent" /\ pc = "update"
            /\ variant.T = "armijo") =>
            /\ grad = grad_f(params.grad_f, x)
            /\ x' = VSub(x, VScale(alpha', grad_f(params.grad_f, x)))
            /\ step_size' = RMul(alpha', norm(grad_f(params.grad_f, x)))]_vars
    /\ []((variant.method = "GradientDescent" /\ pc = "armijo") =>
            grad = grad_f(params.grad_f, x))

C13_Witness ==
    /\ variant.method = "GradientDescent"
    /\ variant.T = "armijo"
    /\ updates = 2
    /\ pc = "head"
    /\ norm(grad_f(params.grad_f, x_prev)) # One
    /\ step_size = RMul(alpha, norm(grad_f(params.grad_f, x_prev)))
    /\ step_size # alpha

\* The run in progress was started by operator()(f, grad_f, initial_condition).
CalledWithArguments == call # NoCall /\ pc # "idle"

\* C14: after operator()(f, grad_f, initial_condition), on a standalone class
\* or on a class derived from Method, the run starts from the given
\* initial_condition with fresh iteration state and evaluates the given f and
\* grad_f.
C14_CallUsesArguments ==
    CalledWithArguments =>
        /\ params.f = call.f /\ params.grad_f = call.grad_f
        /\ (pc = "head" /\ iteration = 0) =>
              /\ x = call.initial_condition
              /\ alpha = params.initial_step
              /\ updates = 0 /\ out = <<>> /\ history = <<>>
        /\ pc \in {"armijo", "update"} =>
              residual = norm(grad_f(call.grad_f, x))

\* The state of a run that has just started.
FreshStart ==
    /\ x = params.initial_condition
    /\ alpha = params.initial_step
    /\ updates = 0 /\ halvings = 0 /\ out = <<>> /\ history = <<>> /\ result = <<>>
    /\ variant.method = "HeavyBall" => d = VZero(Dim)
    /\ variant.method = "Nesterov" => y = params.initial_condition
    /\ variant.method = "Adam" =>
          /\ m = VZero(Dim) /\ v = VZero(Dim)
          /\ beta1_iter = params.beta1 /\ beta2_iter = params.beta2

\* C15: a second run of operator()() on the same object visits the same
\* iterates, steps and statuses as the run before it and returns the same
\* point; every run starts from fresh iteration state, and a run never
\* changes the Parameters record.
C15_Determinism ==
    /\ []((pc = "done" /\ runs >= 2 /\ call = NoCall) =>
            /\ history = previous.history
            /\ out = previous.out
            /\ result = previous.result)
    /\ []((pc = "head" /\ iteration = 0) => FreshStart)
    /\ [][pc \notin {"idle", "done"} => (params' = params /\ base' = base)]_vars
    /\ [][(pc = "done" /\ pc' = "head" /\ call' = NoCall) => params' = params]_vars

C15_Witness ==
    /\ pc = "done"
    /\ runs = 2
    /\ call = NoCall
    /\ variant.method \in {"HeavyBall", "Adam"}
    /\ Len(history) >= 2
    /\ alpha # params.initial_step
    /\ history = previous.history

\* x + delta * e_i
AlongAxis(p, i, delta) ==
    [k \in DOMAIN p |-> IF k = i THEN RAdd(p[k], delta) ELSE p[k]]

\* The difference quotient of expression e at p along coordinate i.
Quotient(DT, e, p, i, h) ==
    CASE DT = "Forward" ->
           RDiv(RSub(f(e, AlongAxis(p, i, h)), f(e, p)), h)
      [] DT = "Backward" ->
           RDiv(RSub(f(e, p), f(e, AlongAxis(p, i, RNeg(h)))), h)
      [] DT = "Centered" ->
           RDiv(RSub(f(e, AlongAxis(p, i, h)), f(e, AlongAxis(p, i, RNeg(h)))),
                RAdd(h, h))

\* C16: coordinate i of gradient(f, h)(x) is (f(x+h*e_i) - f(x))/h for
\* Forward, (f(x) - f(x-h*e_i))/h for Backward and
\* (f(x+h*e_i) - f(x-h*e_i))/(2h) for Centered, the perturbed points differing
\* from x in coordinate i only; x is not modified and the result has the
\* dimension of x.
C16_Stencils ==
    /\ []((fd.mode = "gradient" /\ fd.callable = "function") =>
            /\ Len(fd.grad) = Len(fd.x)
            /\ \A i \in DOMAIN fd.x :
                 fd.task[i].pc = "done" =>
                     fd.grad[i] = Quotient(fd.DT, fd.e, fd.x, i, fd.h))
    /\ [][fd'.x = fd.x]_vars

C16_Witness ==
    /\ fd.mode = "gradient" /\ fd.callable = "function"
    /\ fd.pc = "returned"
    /\ fd.e = "quad" /\ fd.DT = "Forward" /\ fd.h = Half
    /\ fd.x = <<RInt(-1), One>>
    /\ fd.grad = <<<<-1, 2>>, <<3, 2>>>>

\* The result of running the tasks one after another, each to completion.
Sequential ==
    IF fd.mode = "gradient"
    THEN gradient(Function(fd.e), fd.h, fd.DT, fd.x)
    ELSE [i \in DOMAIN fd.x |-> hessian_row(fd.e, fd.h, fd.DT, fd.x, i)]

\* C17: the concurrent tasks of one gradient (or Hessian) evaluation share no
\* mutable state: under every interleaving the returned result is the
\* result of evaluating the coordinates one after another, also when f is
\* the expression evaluator the configuration readers pass to gradient().
C17_Interleavings == fd.pc = "returned" => fd.grad = Sequential

\* The stencil opposite to DT.
Opposite(DT) ==
    IF DT = "Forward" THEN "Backward"
    ELSE IF DT = "Backward" THEN "Forward"
    ELSE "Centered"

\* The difference quotient, with stencil Opposite(DT) along coordinate j, of
\* y -> Quotient(DT, e, y, i, h).
SecondQuotient(DT, e, p, i, j, h) ==
    LET g(q) == Quotient(DT, e, q, i, h)
    IN  CASE Opposite(DT) = "Forward" ->
               RDiv(RSub(g(AlongAxis(p, j, h)), g(p)), h)
          [] Opposite(DT) = "Backward" ->
               RDiv(RSub(g(p), g(AlongAxis(p, j, RNeg(h)))), h)
          [] Opposite(DT) = "Centered" ->
               RDiv(RSub(g(AlongAxis(p, j, h)), g(AlongAxis(p, j, RNeg(h)))),
                    RAdd(h, h))

\* C18: row i of hessian(f, h) with stencil DT is the finite-difference
\* gradient, taken with the opposite stencil, of y -> gradient(f, h, DT)(y)[i];
\* the opposite of Forward is Backward, of Backward Forward and of Centered
\* Centered, so that the opposite of the opposite is DT.
C18_HessianRows ==
    fd.mode = "hessian" =>
        /\ otherType(fd.DT) = Opposite(fd.DT)
        /\ otherType(otherType(fd.DT)) = fd.DT
        /\ \A i \in DOMAIN fd.x :
             fd.task[i].pc = "done" =>
                 /\ Len(fd.grad[i]) = Len(fd.x)
                 /\ \A j \in DOMAIN fd.x :
                      fd.grad[i][j] = SecondQuotient(fd.DT, fd.e, fd.x, i, j, fd.h)

C18_Witness ==
    /\ fd.mode = "hessian" /\ fd.pc = "returned"
    /\ fd.e = "cubic" /\ fd.DT = "Forward" /\ fd.h = One
    /\ fd.x = <<One, One>>
    /\ fd.grad = <<<<RInt(2), RInt(3)>>, <<One, Zero>>>>

\* A bound on the third partial derivatives of expression e: zero for the
\* polynomials of degree at most two.
ThirdDerivative(e) ==
    CASE e = "cubic" -> RInt(2)
      [] e = "cube" -> RInt(6)
      [] OTHER -> Zero

\* C19: the matrix returned by hessian(f, h) has H[i][j] = H[j][i] for
\* i # j exactly with the Centered stencil, whatever f, and with every
\* stencil when f is a quadratic polynomial; otherwise the two entries differ
\* by at most the finite-difference error, h times the bound on the third
\* derivatives.
C19_Symmetry ==
    (fd.mode = "hessian" /\ fd.pc = "returned") =>
        \A i, j \in DOMAIN fd.x :
            /\ fd.DT = "Centered" => fd.grad[i][j] = fd.grad[j][i]
            /\ ThirdDerivative(fd.e) = Zero => fd.grad[i][j] = fd.grad[j][i]
            /\ RLe(RAbs(RSub(fd.grad[i][j], fd.grad[j][i])),
                   RMul(ThirdDerivative(fd.e), fd.h))

C19_Witness ==
    /\ fd.mode = "hessian" /\ fd.pc = "returned"
    /\ fd.e = "cubic" /\ fd.DT = "Centered" /\ fd.h = Half
    /\ fd.x = <<One, One>>
    /\ fd.grad[1][2] = RInt(2) /\ fd.grad[2][1] = RInt(2)
    /\ fd.grad[1][1] # fd.grad[2][2]

\* The expressions that are convex functions.
Convex(e) == e \in {"sq", "sq2", "lin", "quad"}

\* Coordinate i of the evaluation in progress if its stencil is DT, the
\* difference quotient of the same f, x and h otherwise.
With(DT, i) ==
    IF DT = fd.DT THEN fd.grad[i] ELSE Quotient(DT, fd.e, fd.x, i, fd.h)

\* C20: for a convex f and h > 0 the Forward difference is >= the Centered
\* difference >= the Backward difference in every coordinate, and the
\* Centered gradient of x0^2 + x1^2 at (1,1) is exactly (2,2).
C20_Bias ==
    (fd.mode = "gradient" /\ fd.callable = "function") =>
        /\ Convex(fd.e) =>
              \A i \in DOMAIN fd.x :
                  fd.task[i].pc = "done" =>
                      /\ RLe(With("Centered", i), With("Forward", i))
                      /\ RLe(With("Backward", i), With("Centered", i))
        /\ (fd.pc = "returned" /\ fd.e = "sq" /\ fd.DT = "Centered"
              /\ fd.x = <<One, One>>) =>
              fd.grad = <<RInt(2), RInt(2)>>

C20_Witness ==
    /\ fd.mode = "gradient" /\ fd.callable = "function"
    /\ fd.pc = "returned"
    /\ fd.e = "sq" /\ fd.DT = "Centered" /\ fd.h = Half
    /\ fd.x = <<One, One>>
    /\ fd.grad = <<RInt(2), RInt(2)>>
    /\ RLt(With("Centered", 1), With("Forward", 1))
    /\ RLt(With("Backward", 1), With("Centered", 1))

\* The last line written to std::cout is a convergence report.
ConvergenceReported ==
    /\ pc \in {"exit", "done"}
    /\ broke \in {"residual", "step"}

\* C27: the iteration count reported with a convergence status is the
\* number of point updates performed in the run, on the residual criterion
\* and on the step-size criterion alike.
C27_ReportedCount ==
    ConvergenceReported => out[Len(out)].iterations = updates

\* The variants that compute 1/residual: the normalisation of grad and the
\* inverse decay.
DividesByResidual ==
    \/ variant.method = "HeavyBall"
    \/ variant.method = "GradientDescent" /\ variant.T \in {"exponential", "inverse"}
    \/ variant.method \in {"GradientDescent", "HeavyBall", "Nesterov"} /\ variant.T = "inverse"

\* C24: 1/residual (the normalisation and the inverse decay) is computed
\* only in an iteration whose residual test did not fire, so only when
\* residual >= tolerance_r, and with tolerance_r > 0 the divisor is not
\* zero; an iteration whose test fires divides nothing.
C24_CheckThenUse ==
    /\ [](pc \in {"armijo", "update"} =>
            /\ ~RLt(residual, params.tolerance_r)
            /\ residual # Zero
            /\ residual = norm(grad_f(params.grad_f, x)))
    /\ [][(pc = "head" /\ broke' = "residual") =>
            /\ RLt(residual', params.tolerance_r)
            /\ grad' = grad_f(params.grad_f, x)
            /\ alpha' = alpha /\ x' = x
            /\ pc' = "exit"]_vars
    /\ [][(pc = "head" /\ pc' \in {"armijo", "update"} /\ DividesByResidual) =>
            ~RLt(residual', params.tolerance_r)]_vars

C24_Witness ==
    /\ pc = "head"
    /\ variant.method = "HeavyBall" /\ variant.T = "inverse"
    /\ iteration = 2
    /\ updates = 2
    /\ alpha = InverseDecay(1, residual)
    /\ alpha # params.initial_step
    /\ residual # One
    /\ grad = VScale(RDiv(One, residual), grad_f(params.grad_f, x_prev))

\* x - a * mh / (sqrt(vh) + 1e-8), elementwise.
AdamPoint(p, a, mh, vh) ==
    [i \in DOMAIN p |->
        IF mh[i] = Zero THEN p[i]
        ELSE RSub(p[i], RMul(a, RDiv(mh[i], PlusEpsilon(RSqrt(vh[i])))))]

\* C25: in Adam m and v are zero before the first update; beta1_iter and
\* beta2_iter are beta1 and beta2 to the power (updates performed so far + 1);
\* the update of iteration k divides the new m and v by 1 - beta1^(k+1) and
\* 1 - beta2^(k+1) and sets x' = x - alpha * m_hat / (sqrt(v_hat) + 1e-8)
\* elementwise.
C25_BiasCorrection ==
    /\ []((variant.method = "Adam" /\ pc # "idle") =>
            /\ updates = 0 => (m = VZero(Dim) /\ v = VZero(Dim))
            /\ beta1_iter = RPow(params.beta1, updates + 1)
            /\ beta2_iter = RPow(params.beta2, updates + 1)
            /\ pc \in {"head", "update"} => updates = iteration)
    /\ [][(variant.method = "Adam" /\ pc = "update") =>
            LET t == iteration + 1
                m_hat == [i \in DOMAIN x |->
                             RDiv(m'[i], RSub(One, RPow(params.beta1, t)))]
                v_hat == [i \in DOMAIN x |->
                             RDiv(v'[i], RSub(One, RPow(params.beta2, t)))]
            IN  x' = AdamPoint(x, alpha', m_hat, v_hat)]_vars

C25_Witness ==
    /\ variant.method = "Adam"
    /\ pc = "head"
    /\ updates = 2
    /\ beta2_iter = RPow(params.beta2, 3)
    /\ m # VZero(Dim) /\ v # m
    /\ x # x_prev
    /\ m # BiasCorrected(RPow(params.beta1, 2), m)

ExponentialGradientDescent ==
    variant.method = "GradientDescent" /\ variant.T = "exponential"

\* initial_step * exp(-mu)^(k+1), the step of the 0-based iteration k.
ExponentialLength(k) ==
    RMul(params.initial_step, RPow(ExpNeg(params.mu), k + 1))

\* C28: in GradientDescent with exponential decay the update of the 0-based
\* iteration k has length exactly initial_step*exp(-mu*(k+1)), whatever f and
\* grad_f are; the loop therefore never goes past the first k whose length
\* is below tolerance_s, where it reports ConvergedStep, whatever the
\* gradient norm is.
C28_StepForcedStop ==
    /\ [][(ExponentialGradientDescent /\ pc = "update") =>
            /\ alpha' = ExponentialLength(iteration)
            /\ step_size' = ExponentialLength(iteration)
            /\ RLt(ExponentialLength(iteration), params.tolerance_s) =>
                  /\ broke' = "step"
                  /\ pc' = "exit"
                  /\ out' = Append(out, [msg |-> "ConvergedStep",
                                         iterations |-> iteration])]_vars
    /\ []((ExponentialGradientDescent /\ pc \in {"head", "update"}) =>
            \A k \in 0..(iteration - 1) :
                ~RLt(ExponentialLength(k), params.tolerance_s))

C28_Witness ==
    /\ ExponentialGradientDescent
    /\ pc = "done"
    /\ broke = "step"
    /\ iteration = 1
    /\ iteration < params.max_iterations
    /\ step_size = ExponentialLength(1)
    /\ ~RLt(norm(grad_f(params.grad_f, result)), params.tolerance_r)
    /\ params.f = "sq"

\* f(x) = x'Ax with A symmetric positive-definite: the identity and twice
\* the identity.
StrictlyConvexQuadratic(e) == e \in {"sq", "sq2"}

\* C22: for a strictly convex quadratic f every optimizer variant, from any
\* starting point, ends in ConvergedResidual or ConvergedStep within
\* max_iterations, never in MaxIterationsReached, and the returned point has
\* norm(grad_f) < tolerance_r or the last step length is < tolerance_s.
C22_QuadraticConverges ==
    (pc = "done" /\ StrictlyConvexQuadratic(params.f)) =>
        /\ broke \in {"residual", "step"}
        /\ \A k \in DOMAIN out : out[k].msg # "MaxIterationsReached"
        /\ \/ RLt(norm(grad_f(params.grad_f, result)), params.tolerance_r)
           \/ RLt(step_size, params.tolerance_s)

\* C21: an exception raised by f or grad_f during an optimizer run or a
\* finite-difference evaluation reaches the caller: the run returns no
\* point and reports no status, the evaluation does not end the program,
\* and nothing is evaluated again after the exception.
C21_Propagates ==
    /\ [](pc = "raised" => (result = <<>> /\ out = <<>>))
    /\ [][pc # "raised"]_vars
    /\ [](fd # NoEvaluation => fd.pc # "terminated")

\* (f(x + h*e_i) - 2 f(x) + f(x - h*e_i)) / h^2
SecondDifference(e, p, i, h) ==
    RDiv(RAdd(RSub(f(e, AlongAxis(p, i, h)), RMul(RInt(2), f(e, p))),
              f(e, AlongAxis(p, i, RNeg(h)))),
         RMul(h, h))

OneSided(DT) == DT \in {"Forward", "Backward"}

\* C26: with a one-sided stencil every diagonal entry of the computed
\* Hessian is the symmetric second difference
\* (f(x+h*e_i) - 2 f(x) + f(x-h*e_i)) / h^2, and so is each component of
\* derive_2D<2, ...> with a one-sided outer stencil; the Forward and the
\* Backward Hessian have the same diagonal.
C26_BiasCancels ==
    /\ (fd.mode = "hessian" /\ OneSided(fd.DT)) =>
          \A i \in DOMAIN fd.x :
              fd.task[i].pc = "done" =>
                  /\ fd.grad[i][i] = SecondDifference(fd.e, fd.x, i, fd.h)
                  /\ fd.grad[i][i] =
                         hessian_row(fd.e, fd.h, Opposite(fd.DT), fd.x, i)[i]
    /\ (fd.mode = "derive_2D" /\ fd.N = 2 /\ OneSided(fd.DT)
          /\ fd.pc = "returned") =>
          \A c \in 1..2 : fd.grad[c] = SecondDifference(fd.e, fd.x, c, fd.h)

C26_Witness ==
    /\ fd.mode = "derive_2D" /\ fd.N = 2 /\ fd.pc = "returned"
    /\ fd.e = "cube" /\ fd.DT = "Forward" /\ fd.h = One
    /\ fd.x = <<One, One>>
    /\ fd.grad = <<RInt(6), Zero>>

\* A block of main that was enabled, or a call of read, has returned.
Handed == program.pc # "none" /\ program.params.type # "none"

\* C30: in every Parameters record the configuration readers produce, the
\* number of variables N of the evaluator of f, and of the evaluator of the
\* analytic gradient, is the dimension of initial_condition; this includes
\* the data file without initial_condition entries, where the reader falls
\* back to two zeros.
C30_ArityIsDimension ==
    (Handed /\ program.params.type \in ParamsTypes) =>
        LET record == program.params.member
        IN  /\ record["f"].N = Len(record["initial_condition"])
            /\ (record["grad_f"].callable = "muParserX" =>
                    record["grad_f"].N = Len(record["initial_condition"]))

\* C23: with fd = true and with fd = false alike, a reader (read_* or the
\* generic read) hands over a record in which every member of the struct is
\* set, f is callable, and grad_f is the finite-difference gradient when fd
\* is true and the parsed analytic gradient when fd is false.
C23_FullyPopulated ==
    Handed =>
        LET type == program.params.type
            record == program.params.member
        IN  /\ \A i \in 1..Len(Members(type)) : Members(type)[i] \in DOMAIN record
            /\ record["f"].callable = "muParserX"
            /\ record["grad_f"].callable =
                    IF program.datafile.fd THEN "gradient" ELSE "muParserX"
            /\ \A n \in DOMAIN record \ {"f", "grad_f", "initial_condition"} :
                    record[n] \in {Scalar(n), Scalar("eta_nest")}

\* C29: when the data file holds none of the selectors of an enabled family,
\* the defaults of main select a solver variant, which runs; and whenever a
\* dispatcher runs no solver it has written an "Invalid ..." message to
\* std::cerr.
C29_DefaultsSelect ==
    (program.pc # "none" /\ program.selectors # <<>>) =>
        /\ (\A i \in DOMAIN program.selectors : program.selectors[i] = Absent) =>
                program.launched.solver # NoSolver
        /\ program.launched.solver = NoSolver =>
                program.launched.cerr \in {<<"Invalid gradient method type">>,
                                           <<"Invalid method type">>}

====
